---- MODULE Spec2Model ----
(***************************************************************************)
(* Model of src/server.py: the application / API-key service.              *)
(*                                                                         *)
(* The store is the database behind DATABASE_URL in its default            *)
(* configuration (sqlite:///./app.db): integer primary keys are assigned   *)
(* as max(rowid)+1, the UNIQUE constraint on api_keys.key_hash is          *)
(* enforced, and the FOREIGN KEY on api_keys.app_id is declared but not    *)
(* enforced (SQLite enforces no foreign key unless PRAGMA foreign_keys is  *)
(* switched on, which the code never does).                                *)
(*                                                                         *)
(* Requests are served by the workers in Procs against the one shared      *)
(* store.  A handler that reads and then writes is two steps: its queries  *)
(* (no transaction is held open by a SELECT) and then its flush + commit.  *)
(* Between the two another worker's commit may land.                       *)
(*                                                                         *)
(* served counts the requests accepted so far; a run accepts at most       *)
(* MaxRequests of them.                                                    *)
(***************************************************************************)
EXTENDS Integers, FiniteSets, Sequences, TLC

\* ---------------------------------------------------------------- bounds
MaxApps == 2        \* application rows that can exist at once
MaxKeys == 2        \* api_key rows that can exist at once
MaxTime == 1        \* the clock runs 0..MaxTime
MaxRequests == 4    \* requests accepted in one run

\* the workers serving requests, in the order they are handed requests
Procs == {1, 2}

AppIds == 1..MaxApps
KeyIds == 1..MaxKeys
Times == 0..MaxTime

\* Optional[datetime] / Optional[int] None
NoTime == -1
NoId == 0

\* f"sk_{secrets.token_urlsafe(32)}": a tagged random value; the values the
\* random source may return, and the values a caller may present
Plaintexts == {<<"sk", 1>>, <<"sk", 2>>}
NoKey == <<"none", 0>>

\* request inputs
NameLens == {0, 1, 256}                     \* len(app_data.name)
KeyNameInputs == {"None", ""}               \* key_data.name
ExpiryInputs == {NoTime, 0, 1}              \* key_data.expires_at
Routes == {"/verify-key", "/protected"}
HeaderInputs == Plaintexts \cup {NoKey}     \* X-API-Key, NoKey = header absent

VARIABLES apps, keys, now, pc, loc, out, served

vars == <<apps, keys, now, pc, loc, out, served>>

\* ------------------------------------------------------------ pure helpers
Max(S) == CHOOSE x \in S : \A y \in S : y <= x

\* SQLite INTEGER PRIMARY KEY without AUTOINCREMENT: max(rowid)+1
NextId(used) == IF used = {} THEN 1 ELSE Max(used) + 1

\* hashlib.sha256(api_key.encode()).hexdigest(): deterministic, one value
\* per plaintext, never the plaintext itself
hash_api_key(api_key) == <<"sha256", api_key[2]>>

\* ApplicationCreateValid with max_length left out
ApplicationCreateValid_NoMax(len) == len >= 1

\* Field(..., min_length=1, max_length=255)
ApplicationCreateValid(len) == len >= 1 /\ len <= 255

\* QueryApplication with the id filter forgotten: .first() of any application
QueryApplication_NoFilter(app_id) ==
    IF DOMAIN apps = {} THEN {} ELSE {CHOOSE a \in DOMAIN apps : TRUE}

\* db.query(Application).filter(Application.id == app_id).first()
QueryApplication(app_id) ==
    IF app_id \in DOMAIN apps THEN {app_id} ELSE {}

\* key_data.name or f"API Key for {app.name}"
KeyName(given, app_name) ==
    IF given # "None" /\ given # "" THEN <<given, 0>>
    ELSE <<"API Key for ", app_name>>

\* VerifyQuery with the is_active filter forgotten
VerifyQuery_NoActiveFilter(h) ==
    {k \in DOMAIN keys : keys[k].key_hash = h}

\* db.query(APIKey).filter(key_hash == h, is_active == 1)
VerifyQuery(h) ==
    {k \in DOMAIN keys : keys[k].key_hash = h /\ keys[k].is_active = 1}

\* IsExpired with the expiry test left out
IsExpired_Never(expires_at, t) == FALSE

\* key_record.expires_at and key_record.expires_at < datetime.utcnow()
IsExpired(expires_at, t) == expires_at # NoTime /\ expires_at < t

\* RevokeQuery looking among the active credentials only
RevokeQuery_ActiveOnly(app_id, key_id) ==
    {k \in DOMAIN keys : k = key_id /\ keys[k].app_id = app_id /\ keys[k].is_active = 1}

\* db.query(APIKey).filter(APIKey.id == key_id, APIKey.app_id == app_id)
RevokeQuery(app_id, key_id) ==
    {k \in DOMAIN keys : k = key_id /\ keys[k].app_id = app_id}

\* the key_hash column without unique=True
UniqueViolation_Never(h) == FALSE

\* unique=True on api_keys.key_hash
UniqueViolation(h) == \E k \in DOMAIN keys : keys[k].key_hash = h

\* db.query(APIKey).filter(APIKey.app_id == app_id).all()
ListQuery(app_id) == {k \in DOMAIN keys : keys[k].app_id = app_id}

\* cascade="all, delete-orphan": db.delete(app) loads app.api_keys and marks
\* each of them deleted with the application
CascadeKeys(app_id) == {k \in DOMAIN keys : keys[k].app_id = app_id}

\* APIKeyInfo serialising the whole row
APIKeyInfo_WithHash(k) ==
    [id |-> k, name |-> keys[k].name, created_at |-> keys[k].created_at,
     expires_at |-> keys[k].expires_at, last_used_at |-> keys[k].last_used_at,
     is_active |-> (keys[k].is_active # 0), key_hash |-> keys[k].key_hash]

\* APIKeyInfo(id, name, created_at, expires_at, last_used_at, is_active)
APIKeyInfo(k) ==
    [id |-> k, name |-> keys[k].name, created_at |-> keys[k].created_at,
     expires_at |-> keys[k].expires_at, last_used_at |-> keys[k].last_used_at,
     is_active |-> (keys[k].is_active # 0)]

\* ---------------------------------------------------------------- state
IdleLoc ==
    [app_id |-> NoId, key_id |-> NoId, app_name |-> 0,
     api_key |-> NoKey, was_active |-> 0, route |-> "", cascade |-> {}]

\* out is the HTTP response sent by the step that led to the state (Response
\* itself when that step sent none); fields a response does not carry keep
\* these defaults.  req_header repeats the X-API-Key the response answers,
\* and inserted is the key_hash of the row the request committed, if it
\* committed one: they are not part of what the caller sees
Response ==
    [op |-> "", status |-> 0, detail |-> "", req_header |-> NoKey,
     id |-> NoId, app_id |-> NoId, api_key |-> NoKey,
     name |-> <<"", 0>>, created_at |-> NoTime, expires_at |-> NoTime,
     error_params |-> NoKey, items |-> {}, inserted |-> NoKey]

\* Base.metadata.create_all(bind=engine) on a fresh database
Init ==
    /\ apps = << >>
    /\ keys = << >>
    /\ now = 0
    /\ pc = [p \in Procs |-> "idle"]
    /\ loc = [p \in Procs |-> IdleLoc]
    /\ out = Response
    /\ served = 0

\* a new request goes to the first worker that is free (workers keep nothing
\* from one request to the next, so which free worker takes it changes nothing)
Accepts(p) ==
    /\ pc[p] = "idle"
    /\ \A q \in Procs : q < p => pc[q] # "idle"
    /\ served < MaxRequests

Finish(p, resp) ==
    /\ pc' = [pc EXCEPT ![p] = "idle"]
    /\ loc' = [loc EXCEPT ![p] = IdleLoc]
    /\ out' = resp

\* datetime.utcnow() advances.  The unit of the clock is the unit expires_at
\* is given in; a request is short against it, so the clock moves between
\* requests and every read of it within one request returns the same value
Tick ==
    /\ now < MaxTime
    /\ \A q \in Procs : pc[q] = "idle"
    /\ now' = now + 1
    /\ UNCHANGED served
    /\ out' = Response
    /\ UNCHANGED <<apps, keys, pc, loc>>

\* ------------------------------------------------------ POST /app (181-198)
create_application(len) ==
    /\ \E p \in Procs : Accepts(p)
    /\ served' = served + 1
    /\ IF ~ApplicationCreateValid(len)
       THEN /\ out' = [Response EXCEPT !.op = "create_application", !.status = 422,
                                       !.detail = "validation error"]
            /\ UNCHANGED <<apps, keys, now, pc, loc>>
       ELSE /\ NextId(DOMAIN apps) <= MaxApps
            /\ apps' = apps @@ (NextId(DOMAIN apps) :> [name |-> len])
            /\ out' = [Response EXCEPT !.op = "create_application", !.status = 201,
                                       !.id = NextId(DOMAIN apps), !.name = <<"", len>>]
            /\ UNCHANGED <<keys, now, pc, loc>>

\* ------------------------------------------- DELETE /app/{app_id} (221-230)
delete_application_query(p, app_id) ==
    /\ Accepts(p)
    /\ served' = served + 1
    /\ IF QueryApplication(app_id) = {}
       THEN Finish(p, [Response EXCEPT !.op = "delete_application", !.status = 404,
                                       !.detail = "Application not found"])
       ELSE \* db.delete(app) cascades here, over the api_keys it loads now
            /\ pc' = [pc EXCEPT ![p] = "delete_commit"]
            /\ loc' = [loc EXCEPT ![p].app_id = app_id,
                                  ![p].cascade = CascadeKeys(app_id)]
            /\ out' = Response
    /\ UNCHANGED <<apps, keys, now>>

\* db.commit(): one transaction of DELETE FROM api_keys WHERE id = ? for each
\* row marked, then DELETE FROM applications WHERE id = ?; a DELETE that
\* matches no row only warns
delete_application_commit(p) ==
    /\ UNCHANGED served
    /\ pc[p] = "delete_commit"
    /\ keys' = [k \in DOMAIN keys \ loc[p].cascade |-> keys[k]]
    /\ apps' = [a \in DOMAIN apps \ {loc[p].app_id} |-> apps[a]]
    /\ Finish(p, [Response EXCEPT !.op = "delete_application", !.status = 204])
    /\ UNCHANGED now

\* ------------------------------------ POST /app/{app_id}/api-key (233-272)
generate_api_key_query(p, app_id) ==
    /\ Accepts(p)
    /\ served' = served + 1
    /\ IF QueryApplication(app_id) = {}
       THEN Finish(p, [Response EXCEPT !.op = "generate_api_key", !.status = 404,
                                       !.detail = "Application not found"])
       ELSE /\ pc' = [pc EXCEPT ![p] = "generate_commit"]
            /\ loc' = [loc EXCEPT ![p].app_id = app_id,
                                  ![p].app_name =
                                      apps[CHOOSE a \in QueryApplication(app_id) : TRUE].name]
            /\ out' = Response
    /\ UNCHANGED <<apps, keys, now>>

\* NewKeyRecord fingerprinting the token without its "sk_" prefix
NewKeyRecord_HashUnprefixed(app_id, api_key, name, expires_at, created_at) ==
    [app_id |-> app_id, key_hash |-> <<"sha256", 0 - api_key[2]>>, name |-> name,
     created_at |-> created_at, expires_at |-> expires_at,
     last_used_at |-> NoTime, is_active |-> 1]

\* NewKeyRecord keeping the token itself in the key_hash column
NewKeyRecord_StoresPlaintext(app_id, api_key, name, expires_at, created_at) ==
    [app_id |-> app_id, key_hash |-> api_key, name |-> name,
     created_at |-> created_at, expires_at |-> expires_at,
     last_used_at |-> NoTime, is_active |-> 1]

\* the row db.add(key_record) inserts; is_active and last_used_at take the
\* column defaults
NewKeyRecord(app_id, api_key, name, expires_at, created_at) ==
    [app_id |-> app_id, key_hash |-> hash_api_key(api_key), name |-> name,
     created_at |-> created_at, expires_at |-> expires_at,
     last_used_at |-> NoTime, is_active |-> 1]

\* api_key = f"sk_{...}"; key_name and expires_at from the request body;
\* db.add(key_record); db.commit()
generate_api_key_commit(p, api_key, given, expires_at) ==
    /\ UNCHANGED served
    /\ pc[p] = "generate_commit"
    /\ IF UniqueViolation(hash_api_key(api_key))
       THEN \* IntegrityError -> except: db.rollback(); 500 with str(e), which
            \* carries the statement's parameters
            /\ Finish(p, [Response EXCEPT !.op = "generate_api_key", !.status = 500,
                                          !.detail = "Failed to generate API key",
                                          !.error_params = hash_api_key(api_key)])
            /\ UNCHANGED keys
       ELSE /\ NextId(DOMAIN keys) <= MaxKeys
            /\ keys' = keys @@ (NextId(DOMAIN keys) :>
                         NewKeyRecord(loc[p].app_id, api_key,
                                      KeyName(given, loc[p].app_name),
                                      expires_at, now))
            /\ pc' = [pc EXCEPT ![p] = "generate_refresh"]
            /\ loc' = [loc EXCEPT ![p].key_id = NextId(DOMAIN keys),
                                  ![p].api_key = api_key]
            /\ out' = Response
    /\ UNCHANGED <<apps, now>>

\* db.refresh(key_record); return APIKeyResponse(...)
generate_api_key_refresh(p) ==
    /\ UNCHANGED served
    /\ pc[p] = "generate_refresh"
    /\ IF loc[p].key_id \notin DOMAIN keys
       THEN \* InvalidRequestError: the row is gone -> except: 500
            Finish(p, [Response EXCEPT !.op = "generate_api_key", !.status = 500,
                                       !.detail = "Failed to generate API key",
                                       !.inserted = hash_api_key(loc[p].api_key)])
       ELSE Finish(p, [Response EXCEPT !.op = "generate_api_key", !.status = 201,
                                       !.id = loc[p].key_id,
                                       !.api_key = loc[p].api_key,
                                       !.inserted = hash_api_key(loc[p].api_key),
                                       !.name = keys[loc[p].key_id].name,
                                       !.created_at = keys[loc[p].key_id].created_at,
                                       !.expires_at = keys[loc[p].key_id].expires_at])
    /\ UNCHANGED <<apps, keys, now>>

\* ------------------------------------ GET /app/{app_id}/api-keys (275-293)
list_api_keys(app_id) ==
    /\ \E p \in Procs : Accepts(p)
    /\ served' = served + 1
    /\ IF QueryApplication(app_id) = {}
       THEN out' = [Response EXCEPT !.op = "list_api_keys", !.status = 404,
                                    !.detail = "Application not found"]
       ELSE out' = [Response EXCEPT !.op = "list_api_keys", !.status = 200,
                                    !.items = {APIKeyInfo(k) : k \in ListQuery(app_id)}]
    /\ UNCHANGED <<apps, keys, now, pc, loc>>

\* ------------------------------------------------ verify_api_key (133-150)
\* the record verify_api_key goes on with, NoId for its "return None" paths
verify_api_key(api_key, t) ==
    IF VerifyQuery(hash_api_key(api_key)) = {} THEN NoId
    ELSE LET k == CHOOSE x \in VerifyQuery(hash_api_key(api_key)) : TRUE
         IN  IF IsExpired(keys[k].expires_at, t) THEN NoId ELSE k

\* raise HTTPException(status_code=401, detail="Invalid or expired API key")
InvalidResponse(route, header) ==
    [Response EXCEPT !.op = route, !.status = 401,
                     !.detail = "Invalid or expired API key", !.req_header = header]

\* POST /verify-key (326-338) and GET /protected via require_api_key (154-166):
\* the header checks, the query and the expiry test
verify_key_query(p, route, header) ==
    /\ Accepts(p)
    /\ served' = served + 1
    /\ IF header = NoKey
       THEN \* Header(...) is required on /verify-key; "if not x_api_key" on /protected
            Finish(p, IF route = "/protected"
                      THEN [Response EXCEPT !.op = route, !.status = 401,
                                            !.detail = "API key required"]
                      ELSE [Response EXCEPT !.op = route, !.status = 422,
                                            !.detail = "validation error"])
       ELSE IF verify_api_key(header, now) = NoId
       THEN Finish(p, InvalidResponse(route, header))
       ELSE /\ pc' = [pc EXCEPT ![p] = "verify_commit"]
            /\ loc' = [loc EXCEPT ![p].key_id = verify_api_key(header, now),
                                  ![p].api_key = header, ![p].route = route]
            /\ out' = Response
    /\ UNCHANGED <<apps, keys, now>>

\* UsedRecord writing back the whole record as verify read it (active)
UsedRecord_WritesAllFields(rec, t) == [rec EXCEPT !.last_used_at = t, !.is_active = 1]

\* the value key_record.last_used_at = datetime.utcnow() leaves in the row:
\* the UPDATE sets the one changed column
UsedRecord(rec, t) == [rec EXCEPT !.last_used_at = t]

\* key_record.last_used_at = datetime.utcnow(); db.commit(); the handler then
\* reads the (reloaded) record for its body
verify_key_commit(p) ==
    /\ UNCHANGED served
    /\ pc[p] = "verify_commit"
    /\ IF loc[p].key_id \notin DOMAIN keys
       THEN \* UPDATE matched no row: StaleDataError, unhandled
            /\ Finish(p, [Response EXCEPT !.op = loc[p].route, !.status = 500,
                                          !.detail = "Internal Server Error",
                                          !.req_header = loc[p].api_key])
            /\ UNCHANGED keys
       ELSE /\ keys' = [keys EXCEPT ![loc[p].key_id] = UsedRecord(@, now)]
            /\ Finish(p, [Response EXCEPT
                            !.op = loc[p].route, !.status = 200,
                            !.req_header = loc[p].api_key,
                            !.app_id = keys[loc[p].key_id].app_id,
                            !.name = keys[loc[p].key_id].name,
                            !.expires_at = IF loc[p].route = "/verify-key"
                                           THEN keys[loc[p].key_id].expires_at
                                           ELSE NoTime])
    /\ UNCHANGED <<apps, now>>

\* ------------------- DELETE /app/{app_id}/api-key/{key_id} (296-313)
revoke_api_key_query(p, app_id, key_id) ==
    /\ Accepts(p)
    /\ served' = served + 1
    /\ IF RevokeQuery(app_id, key_id) = {}
       THEN Finish(p, [Response EXCEPT !.op = "revoke_api_key", !.status = 404,
                                       !.detail = "API key not found"])
       ELSE /\ pc' = [pc EXCEPT ![p] = "revoke_commit"]
            /\ loc' = [loc EXCEPT
                         ![p].app_id = app_id,
                         ![p].key_id = CHOOSE k \in RevokeQuery(app_id, key_id) : TRUE,
                         ![p].was_active =
                            keys[CHOOSE k \in RevokeQuery(app_id, key_id) : TRUE].is_active]
            /\ out' = Response
    /\ UNCHANGED <<apps, keys, now>>

\* RevokedRecord that also ends the credential's validity period
RevokedRecord_SetsExpiry(rec) == [rec EXCEPT !.is_active = 0, !.expires_at = now]

\* the value key.is_active = 0 leaves in the row
RevokedRecord(rec) == [rec EXCEPT !.is_active = 0]

\* key.is_active = 0; db.commit()
revoke_api_key_commit(p) ==
    /\ UNCHANGED served
    /\ pc[p] = "revoke_commit"
    /\ IF loc[p].was_active = 0
       THEN \* the attribute did not change: the flush writes nothing
            /\ Finish(p, [Response EXCEPT !.op = "revoke_api_key", !.status = 204])
            /\ UNCHANGED keys
       ELSE IF loc[p].key_id \notin DOMAIN keys
       THEN \* UPDATE matched no row: StaleDataError, unhandled
            /\ Finish(p, [Response EXCEPT !.op = "revoke_api_key", !.status = 500,
                                          !.detail = "Internal Server Error"])
            /\ UNCHANGED keys
       ELSE /\ keys' = [keys EXCEPT ![loc[p].key_id] = RevokedRecord(@)]
            /\ Finish(p, [Response EXCEPT !.op = "revoke_api_key", !.status = 204])
    /\ UNCHANGED <<apps, now>>

\* ------------------------------------------------- storage layer failure
\* The statement a worker is about to run raises (OperationalError: database
\* is locked, connection lost).  Inside generate_api_key's try (245-272) the
\* except clause answers 500 after db.rollback(); elsewhere the exception is
\* unhandled and the server answers 500.  Nothing committed is undone.
StorageError(p) ==
    /\ UNCHANGED served
    /\ pc[p] # "idle"
    /\ Finish(p, [Response EXCEPT
                    !.op = CASE pc[p] \in {"generate_commit", "generate_refresh"}
                                  -> "generate_api_key"
                             [] pc[p] = "delete_commit" -> "delete_application"
                             [] pc[p] = "revoke_commit" -> "revoke_api_key"
                             [] OTHER -> loc[p].route,
                    !.status = 500,
                    !.detail = IF pc[p] \in {"generate_commit", "generate_refresh"}
                               THEN "Failed to generate API key"
                               ELSE "Internal Server Error",
                    !.req_header = IF pc[p] = "verify_commit" THEN loc[p].api_key ELSE NoKey,
                    !.inserted = IF pc[p] = "generate_refresh"
                                 THEN hash_api_key(loc[p].api_key) ELSE NoKey])
    /\ UNCHANGED <<apps, keys, now>>

\* ----------------------------------------------------------- specification
Next ==
    \/ Tick
    \/ \E len \in NameLens : create_application(len)
    \/ \E p \in Procs, a \in AppIds : delete_application_query(p, a)
    \/ \E p \in Procs : delete_application_commit(p)
    \/ \E p \in Procs, a \in AppIds : generate_api_key_query(p, a)
    \/ \E p \in Procs, s \in Plaintexts, n \in KeyNameInputs, e \in ExpiryInputs :
          generate_api_key_commit(p, s, n, e)
    \/ \E p \in Procs : generate_api_key_refresh(p)
    \/ \E a \in AppIds : list_api_keys(a)
    \/ \E p \in Procs, r \in Routes, h \in HeaderInputs : verify_key_query(p, r, h)
    \/ \E p \in Procs : verify_key_commit(p)
    \/ \E p \in Procs, a \in AppIds, k \in KeyIds : revoke_api_key_query(p, a, k)
    \/ \E p \in Procs : revoke_api_key_commit(p)
    \/ \E p \in Procs : StorageError(p)

Spec == Init /\ [][Next]_vars

\* A restart: create_all leaves an existing app.db as it is, so the server
\* starts on what an earlier run left, here two applications and one
\* credential of the first
InitRestart ==
    /\ apps = (1 :> [name |-> 1]) @@ (2 :> [name |-> 1])
    /\ keys = (1 :> NewKeyRecord(1, <<"sk", 1>>, KeyName("None", 1), NoTime, 0))
    /\ now = 0
    /\ pc = [p \in Procs |-> "idle"]
    /\ loc = [p \in Procs |-> IdleLoc]
    /\ out = Response
    /\ served = 0

SpecRestart == InitRestart /\ [][Next]_vars

\* The application routes alone, with names at both ends of the accepted
\* range and just outside it
NameLensBoundary == {0, 1, 255, 256}

NextApps ==
    \/ Tick
    \/ \E len \in NameLensBoundary : create_application(len)
    \/ \E p \in Procs, a \in AppIds : delete_application_query(p, a)
    \/ \E p \in Procs : delete_application_commit(p)
    \/ \E a \in AppIds : list_api_keys(a)

SpecApps == Init /\ [][NextApps]_vars

\* ================================================================ claims
\* the stored credential a plaintext belongs to, by fingerprint
KeysOf(api_key) == {k \in DOMAIN keys : keys[k].key_hash = hash_api_key(api_key)}

\* C1: revocation is irreversible.  No step sets a stored credential's
\* is_active back from 0; a revoke that found its credential active and is
\* answered 204 has written is_active = 0; and every verify (on either route)
\* that starts while the credential its plaintext belongs to is revoked is
\* answered 401, whatever its expires_at.
C1_RevocationIrreversible ==
    [][ /\ \A k \in DOMAIN keys \cap DOMAIN keys' :
              keys[k].is_active = 0 => keys'[k].is_active = 0
        /\ \A p \in Procs :
              (revoke_api_key_commit(p) /\ out'.status = 204
                    /\ loc[p].was_active = 1)
                 => /\ loc[p].key_id \in DOMAIN keys'
                    /\ keys'[loc[p].key_id].is_active = 0
        /\ \A p \in Procs, r \in Routes, h \in Plaintexts :
              ((\E k \in KeysOf(h) : keys[k].is_active = 0)
                    /\ served' # served
                    /\ verify_key_query(p, r, h))
                 => /\ out'.status = 401
                    /\ pc'[p] = "idle"
                    /\ keys' = keys ]_vars

\* C1 witness: a verify was answered 401 for the plaintext of a revoked
\* credential that has no expiry
C1_Witness ==
    /\ out.op \in Routes
    /\ out.status = 401
    /\ \E k \in KeysOf(out.req_header) :
          keys[k].is_active = 0 /\ keys[k].expires_at = NoTime

\* C2: right after generate_api_key has committed a credential whose
\* expires_at is absent or later than the current time, verify_api_key on the
\* plaintext it is about to return finds that credential, and the credential
\* carries the app_id of the request.
C2_VerifyAfterIssue ==
    [][ \A p \in Procs, s \in Plaintexts, n \in KeyNameInputs, e \in ExpiryInputs :
          ((e = NoTime \/ e > now)
                /\ pc[p] = "generate_commit"
                /\ pc'[p] = "generate_refresh"
                /\ generate_api_key_commit(p, s, n, e))
             => /\ loc'[p].api_key = s
                /\ loc'[p].key_id \in DOMAIN keys'
                /\ (verify_api_key(s, now))' = loc'[p].key_id
                /\ keys'[loc'[p].key_id].app_id = loc[p].app_id ]_vars

\* C2 witness: a credential with an expiry later than now has just been
\* committed and its plaintext is about to be returned
C2_Witness ==
    \E p \in Procs :
        /\ pc[p] = "generate_refresh"
        /\ loc[p].key_id \in DOMAIN keys
        /\ keys[loc[p].key_id].key_hash = hash_api_key(loc[p].api_key)
        /\ keys[loc[p].key_id].expires_at > now
        /\ keys[loc[p].key_id].last_used_at = NoTime
        /\ keys[loc[p].key_id].created_at = now

\* C3 (as claimed): a verify that starts when the credential's expires_at is
\* present and at or before the current time is answered 401.
C3_ExpiredAtOrBeforeInvalid ==
    [][ \A p \in Procs, r \in Routes, h \in Plaintexts :
          ((\E k \in KeysOf(h) :
                      keys[k].expires_at # NoTime /\ keys[k].expires_at <= now)
                /\ verify_key_query(p, r, h))
             => out'.status = 401 ]_vars

\* C4 (as claimed): when delete_application(A) has committed and answered
\* 204, the store holds no application A and no credential with app_id A, and
\* verify_api_key finds nothing for the plaintext of any credential that was
\* stored under A; a list_api_keys on an id that is not in the store is
\* answered 404.
C4_DeleteCascades ==
    [][ /\ \A p \in Procs :
              (delete_application_commit(p) /\ out'.status = 204)
                 => /\ loc[p].app_id \notin DOMAIN apps'
                    /\ \A k \in DOMAIN keys' : keys'[k].app_id # loc[p].app_id
                    /\ \A h \in Plaintexts :
                          (\E k \in KeysOf(h) : keys[k].app_id = loc[p].app_id)
                             => (verify_api_key(h, now))' = NoId
        /\ \A a \in AppIds :
              (a \notin DOMAIN apps /\ list_api_keys(a))
                 => out'.status = 404 /\ out'.items = {} ]_vars

\* C5 (as claimed): every stored credential's app_id names an application
\* that is in the store.
C5_NoOrphanedCredential ==
    \A k \in DOMAIN keys : keys[k].app_id \in DOMAIN apps

\* what the caller of a verify sees of a response
Visible(resp) ==
    [status |-> resp.status, detail |-> resp.detail, id |-> resp.id,
     app_id |-> resp.app_id, api_key |-> resp.api_key, name |-> resp.name,
     created_at |-> resp.created_at, expires_at |-> resp.expires_at,
     error_params |-> resp.error_params, items |-> resp.items]

\* the one failure signal
FailureSignal ==
    Visible([Response EXCEPT !.status = 401, !.detail = "Invalid or expired API key"])

\* the three causes of an Invalid: no credential has the fingerprint, the
\* credential is revoked, the credential's expires_at is at or before now
MatchesNothing(h) == KeysOf(h) = {}
MatchesRevoked(h) == \E k \in KeysOf(h) : keys[k].is_active = 0
MatchesExpired(h) ==
    \E k \in KeysOf(h) : keys[k].expires_at # NoTime /\ keys[k].expires_at <= now

\* C6 (as claimed): a verify, on /verify-key and on /protected, of a plaintext
\* that matches no credential, a revoked credential or an expired credential
\* is answered with the one failure signal: the same status, detail and body
\* whichever of the three causes applies.
C6_UndifferentiatedFailure ==
    [][ \A p \in Procs, r \in Routes, h \in Plaintexts :
          ((MatchesNothing(h) \/ MatchesRevoked(h) \/ MatchesExpired(h))
                /\ verify_key_query(p, r, h))
             => Visible(out') = FailureSignal ]_vars

\* C7 (as claimed): a generate_api_key that is answered with an error has left
\* no key record of its own in the store.
C7_IssuanceAtomic ==
    (out.op = "generate_api_key" /\ out.status # 201)
       => \A k \in DOMAIN keys : keys[k].key_hash # out.inserted

\* C8: generate_api_key on an app_id that is not in the store is answered 404
\* "Application not found", ends there, and leaves applications and
\* credentials as they were.
C8_GenerateUnknownApp ==
    [][ \A p \in Procs, a \in AppIds :
          (a \notin DOMAIN apps /\ generate_api_key_query(p, a))
             => /\ out'.status = 404
                /\ out'.detail = "Application not found"
                /\ out'.api_key = NoKey
                /\ pc'[p] = "idle"
                /\ apps' = apps
                /\ keys' = keys ]_vars

\* C8 witness: a generate was answered 404 while the store holds another
\* application and a credential
C8_Witness ==
    /\ out.op = "generate_api_key"
    /\ out.status = 404
    /\ DOMAIN apps # {}
    /\ DOMAIN keys # {}

\* C9: no two stored credentials have the same key_hash, under whichever
\* applications they are; and a generate_api_key whose token's fingerprint is
\* already stored is answered 500 and changes nothing in the store.
C9_FingerprintUnique ==
    [][ /\ \A k1 \in DOMAIN keys', k2 \in DOMAIN keys' :
              k1 # k2 => keys'[k1].key_hash # keys'[k2].key_hash
        /\ \A p \in Procs, s \in Plaintexts :
              (KeysOf(s) # {} /\ pc[p] = "generate_commit"
                    /\ \E n \in KeyNameInputs, e \in ExpiryInputs :
                          generate_api_key_commit(p, s, n, e))
                 => /\ out'.status = 500
                    /\ pc'[p] = "idle"
                    /\ keys' = keys
                    /\ apps' = apps ]_vars

\* C9 witness: an issuance failed on a fingerprint that is in the store
C9_Witness ==
    /\ out.op = "generate_api_key"
    /\ out.status = 500
    /\ out.error_params # NoKey
    /\ \E k \in DOMAIN keys : keys[k].key_hash = out.error_params

\* C10: no stored credential holds a plaintext in any of its fields, and a
\* response carries a plaintext only when it is the 201 of the
\* generate_api_key call that issued it; no other field of any response, and
\* no item of a listing, is a plaintext.
C10_PlaintextNeverStored ==
    /\ \A k \in DOMAIN keys :
          keys[k].key_hash \notin Plaintexts /\ keys[k].name \notin Plaintexts
    /\ out.api_key # NoKey
          => /\ out.op = "generate_api_key"
             /\ out.status = 201
             /\ out.api_key \in Plaintexts
             /\ out.inserted = hash_api_key(out.api_key)
    /\ out.name \notin Plaintexts
    /\ out.error_params \notin Plaintexts
    /\ \A i \in out.items : i.name \notin Plaintexts

\* C10 witness: a generate_api_key answered 201 with the plaintext, and the
\* store holds its fingerprint
C10_Witness ==
    /\ out.op = "generate_api_key"
    /\ out.status = 201
    /\ out.api_key \in Plaintexts
    /\ \E k \in DOMAIN keys :
          k = out.id /\ keys[k].key_hash = hash_api_key(out.api_key)

\* C11: revoke_api_key is idempotent.  A revoke of a credential that is
\* already revoked is not refused (its query finds the credential and goes on
\* to commit), and its commit is answered 204 and leaves applications and
\* credentials exactly as they were.
C11_RevokeIdempotent ==
    [][ /\ \A p \in Procs, a \in AppIds, k \in KeyIds :
              ((k \in DOMAIN keys /\ keys[k].app_id = a /\ keys[k].is_active = 0)
                    /\ revoke_api_key_query(p, a, k))
                 => /\ pc'[p] = "revoke_commit"
                    /\ loc'[p].key_id = k
                    /\ keys' = keys
        /\ \A p \in Procs :
              ((loc[p].key_id \in DOMAIN keys /\ keys[loc[p].key_id].is_active = 0)
                    /\ revoke_api_key_commit(p))
                 => /\ out'.status = 204
                    /\ keys' = keys
                    /\ apps' = apps ]_vars

\* C11 witness: a second revoke has found the credential already revoked and
\* is about to commit
C11_Witness ==
    \E p \in Procs :
        /\ pc[p] = "revoke_commit"
        /\ loc[p].was_active = 0
        /\ loc[p].key_id \in DOMAIN keys
        /\ keys[loc[p].key_id].is_active = 0

\* C12 (as claimed): a revoke_api_key(app_id, key_id) whose key_id is not in
\* the store, or is the id of a credential of another application, is
\* answered 404 and leaves the store unchanged; and no revoke changes a
\* credential whose app_id is not the app_id of the request.
C12_RevokeMismatchNotFound ==
    [][ /\ \A p \in Procs, a \in AppIds, k \in KeyIds :
              ((k \notin DOMAIN keys \/ keys[k].app_id # a)
                    /\ revoke_api_key_query(p, a, k))
                 => /\ out'.status = 404
                    /\ pc'[p] = "idle"
                    /\ keys' = keys
                    /\ apps' = apps
        /\ \A p \in Procs :
              (pc[p] = "revoke_commit" /\ revoke_api_key_commit(p))
                 => \A k \in DOMAIN keys :
                       keys'[k] # keys[k] => keys[k].app_id = loc[p].app_id ]_vars

\* C13: a verify that finds the credential expired (active, expires_at
\* before now) ends there with a 401: it leaves every credential and every
\* application as it was, is_active and last_used_at of the expired
\* credential included, and no write of it is pending.
C13_ExpiredVerifyMutatesNothing ==
    [][ \A p \in Procs, r \in Routes, h \in Plaintexts :
          ((\E k \in KeysOf(h) : keys[k].is_active = 1
                                   /\ keys[k].expires_at # NoTime
                                   /\ keys[k].expires_at < now)
                /\ verify_key_query(p, r, h))
             => /\ out'.status = 401
                /\ pc'[p] = "idle"
                /\ keys' = keys
                /\ apps' = apps ]_vars

\* C13 witness: a verify was answered 401 for a credential that is expired,
\* still active and never used
C13_Witness ==
    /\ out.op \in Routes
    /\ out.status = 401
    /\ \E k \in KeysOf(out.req_header) :
          /\ keys[k].is_active = 1
          /\ keys[k].expires_at # NoTime
          /\ keys[k].expires_at < now
          /\ keys[k].last_used_at = NoTime

\* C14 (as claimed): a credential's last_used_at goes from absent to present
\* only in the commit of a successful verify of that credential (the one
\* whose plaintext the verify was given), and every successful verify leaves
\* it present; a new credential starts with it absent.
C14_LastUsedOnlyByVerify ==
    [][ /\ \A k \in DOMAIN keys' :
              (keys'[k].last_used_at # NoTime
                    /\ (k \notin DOMAIN keys \/ keys[k].last_used_at = NoTime))
                 => \E p \in Procs :
                       /\ pc[p] = "verify_commit"
                       /\ loc[p].key_id = k
                       /\ k \in DOMAIN keys
                       /\ keys[k].key_hash = hash_api_key(loc[p].api_key)
                       /\ verify_key_commit(p)
                       /\ out'.status = 200
        /\ \A p \in Procs :
              (pc[p] = "verify_commit" /\ verify_key_commit(p) /\ out'.status = 200)
                 => keys'[loc[p].key_id].last_used_at # NoTime ]_vars

\* C15: as long as a credential record is in the store its key_hash, app_id,
\* name, created_at and expires_at (and its id) do not change; a step that
\* changes the record at all is the commit of a successful verify, which
\* changes last_used_at only, or the commit of a revoke, which changes
\* is_active only, to 0.
C15_RecordImmutable ==
    [][ \A k \in DOMAIN keys \cap DOMAIN keys' :
          /\ keys'[k].key_hash = keys[k].key_hash
          /\ keys'[k].app_id = keys[k].app_id
          /\ keys'[k].name = keys[k].name
          /\ keys'[k].created_at = keys[k].created_at
          /\ keys'[k].expires_at = keys[k].expires_at
          /\ keys'[k] # keys[k]
                => \E p \in Procs :
                      /\ loc[p].key_id = k
                      /\ \/ /\ pc[p] = "verify_commit"
                            /\ out'.status = 200
                            /\ keys'[k] = [keys[k] EXCEPT !.last_used_at = now]
                         \/ /\ pc[p] = "revoke_commit"
                            /\ out'.status = 204
                            /\ keys'[k] = [keys[k] EXCEPT !.is_active = 0] ]_vars

\* C15 witness: a credential that has been verified and then revoked, its
\* other fields as issued
C15_Witness ==
    \E k \in DOMAIN keys :
        /\ keys[k].last_used_at # NoTime
        /\ keys[k].is_active = 0
        /\ out.op = "revoke_api_key"
        /\ out.status = 204

\* the fingerprints of the tokens
Fingerprints == {hash_api_key(s) : s \in Plaintexts}

\* C16: every item of a list_api_keys response has exactly the fields id,
\* name, created_at, expires_at, last_used_at and is_active, and its name is
\* neither a fingerprint nor a plaintext; a response that is not a 200 has no
\* items.
C16_ListHidesSecrets ==
    /\ \A i \in out.items :
          /\ DOMAIN i = {"id", "name", "created_at", "expires_at",
                         "last_used_at", "is_active"}
          /\ i.name \notin Fingerprints \cup Plaintexts
    /\ out.items # {} => out.op = "list_api_keys" /\ out.status = 200

\* C16 witness: a listing of an application that has a credential
C16_Witness ==
    /\ out.op = "list_api_keys"
    /\ out.status = 200
    /\ \E i \in out.items :
          i.id \in DOMAIN keys /\ keys[i.id].key_hash \in Fingerprints

\* C17: create_application stores an application exactly when the length of
\* the name is between 1 and 255: then it answers 201 and the store gains
\* one application with that name; for a shorter or longer name it answers
\* 422 and the store is unchanged.
C17_CreateValidatesName ==
    [][ \A len \in NameLensBoundary :
          create_application(len)
             => IF 1 <= len /\ len <= 255
                THEN /\ out'.status = 201
                     /\ out'.id \notin DOMAIN apps
                     /\ DOMAIN apps' = DOMAIN apps \cup {out'.id}
                     /\ apps'[out'.id].name = len
                     /\ \A a \in DOMAIN apps : apps'[a] = apps[a]
                ELSE /\ out'.status = 422
                     /\ apps' = apps
                     /\ keys' = keys ]_vars

\* C17 witness: a name was refused while the store holds an application
\* whose name has 255 characters
C17_Witness ==
    /\ out.op = "create_application"
    /\ out.status = 422
    /\ \E a \in DOMAIN apps : apps[a].name = 255

\* C18: the commit of a verify changes nothing but last_used_at of the
\* credential it read: every other field of that record, is_active included,
\* and every other record stay as they are in the store at that moment, so a
\* revoke that committed after the verify read the record is not undone; and
\* a revoke that read the credential active leaves it inactive when it is
\* answered 204, whatever a verify wrote in between.
C18_VerifyRevokeRace ==
    [][ /\ \A p \in Procs :
              (pc[p] = "verify_commit" /\ verify_key_commit(p))
                 => /\ DOMAIN keys' = DOMAIN keys
                    /\ \A k \in DOMAIN keys :
                          IF k = loc[p].key_id /\ out'.status = 200
                          THEN keys'[k] = [keys[k] EXCEPT !.last_used_at = now]
                          ELSE keys'[k] = keys[k]
        /\ \A p \in Procs :
              (pc[p] = "revoke_commit" /\ loc[p].was_active = 1
                    /\ revoke_api_key_commit(p) /\ out'.status = 204)
                 => /\ keys'[loc[p].key_id].is_active = 0
                    /\ keys'[loc[p].key_id].last_used_at
                          = keys[loc[p].key_id].last_used_at ]_vars

\* C18 witness: a verify that read the credential active has committed its
\* last_used_at after a revoke of the credential committed, and the
\* credential is inactive
C18_Witness ==
    /\ out.op \in Routes
    /\ out.status = 200
    /\ \E k \in KeysOf(out.req_header) :
          keys[k].is_active = 0 /\ keys[k].last_used_at # NoTime

\* C19 (as claimed): the commit of revoke_api_key(app, key) changes no
\* credential but the key of that application it was asked to revoke, and no
\* application; the commit of delete_application(A) removes no application
\* but A and no credential but those whose app_id is A, changes nothing that
\* it leaves in the store, and every plaintext of a credential of another
\* application verifies after it as it did before.
C19_RevokeDeleteIsolated ==
    [][ /\ \A p \in Procs :
              (pc[p] = "revoke_commit" /\ revoke_api_key_commit(p))
                 => /\ apps' = apps
                    /\ DOMAIN keys' = DOMAIN keys
                    /\ \A k \in DOMAIN keys :
                          keys'[k] # keys[k]
                             => k = loc[p].key_id /\ keys[k].app_id = loc[p].app_id
        /\ \A p \in Procs :
              (pc[p] = "delete_commit" /\ delete_application_commit(p))
                 => /\ DOMAIN apps \ DOMAIN apps' \subseteq {loc[p].app_id}
                    /\ \A a \in DOMAIN apps' : a \in DOMAIN apps /\ apps'[a] = apps[a]
                    /\ \A k \in DOMAIN keys \ DOMAIN keys' :
                          keys[k].app_id = loc[p].app_id
                    /\ \A k \in DOMAIN keys' : k \in DOMAIN keys /\ keys'[k] = keys[k]
                    /\ \A h \in Plaintexts :
                          (\A k \in KeysOf(h) : keys[k].app_id # loc[p].app_id)
                             => (verify_api_key(h, now))' = verify_api_key(h, now) ]_vars

====
